---- MODULE Spec2Model ----
(***************************************************************************)
(* Model of nd-vec's Vector<T, N> (src/src/vector.rs).                     *)
(*                                                                         *)
(* A vector is the sequence of its components; N is its length.  The       *)
(* element type T is instantiated to a W-bit two's complement signed       *)
(* integer with Rust's arithmetic: an overflowing +, -, * panics when the  *)
(* build has overflow checks and wraps otherwise; / and % panic on a zero  *)
(* divisor and on TMin / -1 in every build.  The float type of the casts   *)
(* is modelled by its values that are multiples of one half, together      *)
(* with -0.0, NaN and the two infinities.                                  *)
(***************************************************************************)
EXTENDS Integers, Sequences, FiniteSets, TLC

VARIABLES a, b, fa, checks, op, arg, status, res, val, fres, calls, err,
          same, ha, hb

vars == <<a, b, fa, checks, op, arg, status, res, val, fres, calls, err,
          same, ha, hb>>

(* ---------------------------------------------------------------- bounds *)

\* largest dimension N of the vectors drawn
MaxN == 2
\* width in bits of the integer element type T
W == 8

TMin == -(2 ^ (W - 1))
TMax == (2 ^ (W - 1)) - 1

\* the narrower unsigned integer type K of try_cast and of the integer num_cast
KMin == 0
KMax == (2 ^ (W - 2)) - 1

\* component values the vectors are drawn from
Vals == {TMin, -1, 0, 2, TMax}
\* scalar operands
Scalars == {TMin, -1, 0, 2}

Vec(n) == [1..n -> Vals]

\* component values the integer sources of the casts are drawn from
CastVals == {TMin, -1, 0, 2, KMax, KMax + 1, TMax}

CastVec(n) == [1..n -> CastVals]

(* ------------------------------------------------- the element type T *)

Panic == [ok |-> FALSE, v |-> 0]
Done(x) == [ok |-> TRUE, v |-> x]

Wrap(x) == ((x - TMin) % (2 ^ W)) + TMin

\* the result of +, -, * whose mathematical value is x
arith(x, chk) ==
    IF x >= TMin /\ x <= TMax THEN Done(x)
    ELSE IF chk THEN Panic
    ELSE Done(Wrap(x))

Abs(x) == IF x < 0 THEN -x ELSE x

\* quotient rounded toward zero, y # 0
TruncDiv(x, y) ==
    IF (x >= 0) = (y > 0) THEN Abs(x) \div Abs(y) ELSE -(Abs(x) \div Abs(y))

t_add(x, y, chk) == arith(x + y, chk)
t_sub(x, y, chk) == arith(x - y, chk)
t_mul(x, y, chk) == arith(x * y, chk)
t_div_unchecked(x, y, chk) ==
    IF y = 0 THEN Done(0)
    ELSE IF x = TMin /\ y = -1 THEN Panic
    ELSE Done(TruncDiv(x, y))

t_div(x, y, chk) ==
    IF y = 0 THEN Panic
    ELSE IF x = TMin /\ y = -1 THEN Panic
    ELSE Done(TruncDiv(x, y))
t_rem(x, y, chk) ==
    IF y = 0 THEN Panic
    ELSE IF x = TMin /\ y = -1 THEN Panic
    ELSE Done(x - (y * TruncDiv(x, y)))

\* num_traits Signed::abs on a primitive integer: -x when x is negative
t_abs(x, chk) == IF x < 0 THEN arith(-x, chk) ELSE Done(x)

Funcs == {"add", "sub", "div", "rem"}

\* x.$func(y) of bin_op! and assign_op!
t_op(func, x, y, chk) ==
    CASE func = "add" -> t_add(x, y, chk)
      [] func = "sub" -> t_sub(x, y, chk)
      [] func = "div" -> t_div(x, y, chk)
      [] func = "rem" -> t_rem(x, y, chk)

(* ------------------------------------------------------------ Vector *)

\* [T::zero(); N]
zero(n) == [i \in 1..n |-> 0]

Ok(v) == [st |-> "ok", vec |-> v]
Unwound == [st |-> "panic", vec |-> <<>>]

RECURSIVE bin_op_loop(_, _, _, _, _, _)
bin_op_loop(func, self, other, chk, i, components) ==
    IF i > Len(components) THEN Ok(components)
    ELSE LET r == t_op(func, self[i], other[i], chk)
         IN  IF ~r.ok THEN Unwound
             ELSE bin_op_loop(func, self, other, chk, i + 1,
                              [components EXCEPT ![i] = r.v])

bin_op_first_other(func, self, other, chk) ==
    bin_op_loop(func, self, [i \in 1..Len(other) |-> other[1]], chk, 1,
                zero(Len(self)))

\* impl $trait for Vector<T, N>: self.$func(other)
bin_op(func, self, other, chk) ==
    bin_op_loop(func, self, other, chk, 1, zero(Len(self)))

RECURSIVE bin_op_scalar_loop(_, _, _, _, _, _)
bin_op_scalar_loop(func, self, other, chk, i, components) ==
    IF i > Len(components) THEN Ok(components)
    ELSE LET r == t_op(func, self[i], other, chk)
         IN  IF ~r.ok THEN Unwound
             ELSE bin_op_scalar_loop(func, self, other, chk, i + 1,
                                     [components EXCEPT ![i] = r.v])

\* impl $trait<T> for Vector<T, N>: self.$func(other), other a scalar
bin_op_scalar(func, self, other, chk) ==
    bin_op_scalar_loop(func, self, other, chk, 1, zero(Len(self)))

RECURSIVE mul_loop(_, _, _, _, _)
mul_loop(self, rhs, chk, i, components) ==
    IF i > Len(components) THEN Ok(components)
    ELSE LET r == t_mul(self[i], rhs, chk)
         IN  IF ~r.ok THEN Unwound
             ELSE mul_loop(self, rhs, chk, i + 1, [components EXCEPT ![i] = r.v])

\* impl Mul<T> for Vector<T, N>
mul(self, rhs, chk) == mul_loop(self, rhs, chk, 1, zero(Len(self)))

\* the loop of assign_op!: it writes into self.components, and a panic leaves
\* the components before i replaced and the others as they were
RECURSIVE assign_op_loop(_, _, _, _, _)
assign_op_loop(func, components, rhs, chk, i) ==
    IF i > Len(components) THEN [st |-> "ok", vec |-> components]
    ELSE LET r == t_op(func, components[i], rhs[i], chk)
         IN  IF ~r.ok THEN [st |-> "panic", vec |-> components]
             ELSE assign_op_loop(func, [components EXCEPT ![i] = r.v], rhs, chk,
                                 i + 1)

RECURSIVE assign_op_swapped_loop(_, _, _, _, _)
assign_op_swapped_loop(func, components, rhs, chk, i) ==
    IF i > Len(components) THEN [st |-> "ok", vec |-> components]
    ELSE LET r == t_op(func, rhs[i], components[i], chk)
         IN  IF ~r.ok THEN [st |-> "panic", vec |-> components]
             ELSE assign_op_swapped_loop(func, [components EXCEPT ![i] = r.v], rhs,
                                         chk, i + 1)

assign_op_swapped(func, self, rhs, chk) ==
    assign_op_swapped_loop(func, self, rhs, chk, 1)

\* impl $trait for Vector<T, N>: self.$func(rhs), the compound assignment
assign_op(func, self, rhs, chk) == assign_op_loop(func, self, rhs, chk, 1)

RECURSIVE neg_loop(_, _, _, _)
neg_loop(self, chk, i, components) ==
    IF i > Len(components) THEN Ok(components)
    ELSE LET r == t_sub(0, self[i], chk)
         IN  IF ~r.ok THEN Unwound
             ELSE neg_loop(self, chk, i + 1, [components EXCEPT ![i] = r.v])

RECURSIVE neg_swapped_loop(_, _, _, _)
neg_swapped_loop(self, chk, i, components) ==
    IF i > Len(components) THEN Ok(components)
    ELSE LET r == t_sub(self[i], 0, chk)
         IN  IF ~r.ok THEN Unwound
             ELSE neg_swapped_loop(self, chk, i + 1, [components EXCEPT ![i] = r.v])

neg_swapped(self, chk) == neg_swapped_loop(self, chk, 1, zero(Len(self)))

\* impl Neg for Vector<T, N>
neg(self, chk) == neg_loop(self, chk, 1, zero(Len(self)))

RECURSIVE hadamard_loop(_, _, _, _, _)
hadamard_loop(self, other, chk, i, components) ==
    IF i > Len(components) THEN Ok(components)
    ELSE LET r == t_mul(self[i], other[i], chk)
         IN  IF ~r.ok THEN Unwound
             ELSE hadamard_loop(self, other, chk, i + 1,
                                [components EXCEPT ![i] = r.v])

\* Vector::hadamard_product
hadamard_product(self, other, chk) ==
    hadamard_loop(self, other, chk, 1, zero(Len(self)))

RECURSIVE sum_loop(_, _, _, _)
sum_loop(self, chk, i, acc) ==
    IF i > Len(self) THEN Done(acc)
    ELSE LET r == t_add(acc, self[i], chk)
         IN  IF ~r.ok THEN Panic ELSE sum_loop(self, chk, i + 1, r.v)

\* Vector::sum
sum(self, chk) == sum_loop(self, chk, 1, 0)

\* the products are made one at a time as Iterator::sum folds them from zero
RECURSIVE dot_loop(_, _, _, _, _)
dot_loop(self, other, chk, i, acc) ==
    IF i > Len(self) THEN Done(acc)
    ELSE LET p == t_mul(self[i], other[i], chk)
         IN  IF ~p.ok THEN Panic
             ELSE LET r == t_add(acc, p.v, chk)
                  IN  IF ~r.ok THEN Panic
                      ELSE dot_loop(self, other, chk, i + 1, r.v)

dot_skip_first(self, other, chk) == dot_loop(self, other, chk, 2, 0)

\* Vector::dot
dot(self, other, chk) == dot_loop(self, other, chk, 1, 0)

RECURSIVE manhattan_loop(_, _, _, _, _)
manhattan_loop(self, other, chk, i, out) ==
    IF i > Len(self) THEN Done(out)
    ELSE LET d == t_sub(self[i], other[i], chk)
         IN  IF ~d.ok THEN Panic
             ELSE LET m == t_abs(d.v, chk)
                  IN  IF ~m.ok THEN Panic
                      ELSE LET r == t_add(out, m.v, chk)
                           IN  IF ~r.ok THEN Panic
                               ELSE manhattan_loop(self, other, chk, i + 1, r.v)

RECURSIVE manhattan_no_abs_loop(_, _, _, _, _)
manhattan_no_abs_loop(self, other, chk, i, out) ==
    IF i > Len(self) THEN Done(out)
    ELSE LET d == t_sub(self[i], other[i], chk)
         IN  IF ~d.ok THEN Panic
             ELSE LET r == t_add(out, d.v, chk)
                  IN  IF ~r.ok THEN Panic
                      ELSE manhattan_no_abs_loop(self, other, chk, i + 1, r.v)

manhattan_no_abs(self, other, chk) == manhattan_no_abs_loop(self, other, chk, 1, 0)

\* Vector::manhattan_distance
manhattan_distance(self, other, chk) == manhattan_loop(self, other, chk, 1, 0)

eq_first(self, other) ==
    \A i \in 1..(IF Len(self) < 1 THEN Len(self) ELSE 1) : self[i] = other[i]

\* PartialEq::eq
eq(self, other) ==
    \A i \in 1..(IF Len(self) < Len(other) THEN Len(self) ELSE Len(other)) :
        self[i] = other[i]

RECURSIVE from_iter_loop(_, _, _, _)
from_iter_loop(iter, i, taken, components) ==
    IF taken = 0 \/ i > Len(iter) THEN [vec |-> components, calls |-> i - 1]
    ELSE from_iter_loop(iter, i + 1, taken - 1, [components EXCEPT ![i] = iter[i]])

from_iter_untaken(iter, n) == from_iter_loop(iter, 1, n + 1, zero(n))

\* FromIterator::from_iter into a Vector<T, n>: iter.into_iter().take(n)
from_iter(iter, n) == from_iter_loop(iter, 1, n, zero(n))

\* Hash::hash: self.components.hash(state).  The hasher is the sequence of
\* the values written to it; an array is hashed as its slice, the length
\* first and then the elements in index order
hash(self, state) == state \o <<Len(self)>> \o self

(* ------------------------------------------------------------- casts *)

\* the float type: a multiple h of one half, -0.0, NaN or an infinity
Fin(h) == [k |-> "fin", h |-> h]
NZero == [k |-> "nzero", h |-> 0]
NaN == [k |-> "nan", h |-> 0]
PInf == [k |-> "pinf", h |-> 0]
NInf == [k |-> "ninf", h |-> 0]

\* float values the cast sources are drawn from: around both ends of T's
\* range, with and without a fractional part, and the special values
FVals ==
    {Fin(h) : h \in {(2 * TMin) - 2, (2 * TMin) - 1, 2 * TMin, -3, 0, 1, 4,
                     2 * TMax, (2 * TMax) + 1, (2 * TMax) + 2}}
        \cup {NZero, NaN, PInf, NInf}

FVec(n) == [1..n -> FVals]

\* == of the float type
f_eq(x, y) ==
    IF x.k = "nan" \/ y.k = "nan" THEN FALSE
    ELSE IF x.k \in {"pinf", "ninf"} \/ y.k \in {"pinf", "ninf"} THEN x.k = y.k
    ELSE x.h = y.h

\* PartialEq::eq of two float vectors
eq_float(self, other) ==
    \A i \in 1..(IF Len(self) < Len(other) THEN Len(self) ELSE Len(other)) :
        f_eq(self[i], other[i])

None == [some |-> FALSE, v |-> 0]
Some(x) == [some |-> TRUE, v |-> x]

\* <T as NumCast>::from of a float: num_traits lets through the values strictly
\* between TMin - 1 and TMax + 1 and converts them with `as`, toward zero
float_to_int(f) ==
    IF f.k = "fin"
    THEN IF f.h > 2 * (TMin - 1) /\ f.h < 2 * (TMax + 1)
         THEN Some(TruncDiv(f.h, 2))
         ELSE None
    ELSE IF f.k = "nzero" THEN Some(0)
    ELSE None

\* <K as NumCast>::from of a T, K the narrower unsigned type
int_to_narrow(x) == IF x >= KMin /\ x <= KMax THEN Some(x) ELSE None

Kinds == {"float_int", "int_narrow"}

\* K::from(*e) of num_cast
num_from(kind, e) ==
    IF kind = "float_int" THEN float_to_int(e) ELSE int_to_narrow(e)

RECURSIVE num_cast_loop(_, _, _, _)
num_cast_loop(kind, self, i, components) ==
    IF i > Len(self) THEN [st |-> "ok", vec |-> components]
    ELSE LET r == num_from(kind, self[i])
         IN  IF ~r.some THEN [st |-> "None", vec |-> <<>>]
             ELSE num_cast_loop(kind, self, i + 1, [components EXCEPT ![i] = r.v])

num_cast_or_zero(kind, self) ==
    [st |-> "ok",
     vec |-> [i \in 1..Len(self) |->
                IF num_from(kind, self[i]).some THEN num_from(kind, self[i]).v
                ELSE 0]]

\* Vector::num_cast
num_cast(kind, self) == num_cast_loop(kind, self, 1, zero(Len(self)))

\* K::try_from of a T, K the narrower unsigned type
try_from(x) == x >= KMin /\ x <= KMax

\* Vector::try_cast; calls counts the K::try_from made, err is the index
\* (from 0) of the component whose error is returned
RECURSIVE try_cast_loop(_, _, _)
try_cast_loop(self, i, components) ==
    IF i > Len(self)
    THEN [st |-> "ok", vec |-> components, calls |-> i - 1, err |-> -1]
    ELSE IF ~try_from(self[i])
         THEN [st |-> "Err", vec |-> <<>>, calls |-> i, err |-> i - 1]
         ELSE try_cast_loop(self, i + 1, [components EXCEPT ![i] = self[i]])

\* every component converted, the last error returned
try_cast_all(self) ==
    LET bad == {i \in 1..Len(self) : ~try_from(self[i])}
    IN  IF bad = {} THEN [st |-> "ok", vec |-> self, calls |-> Len(self), err |-> -1]
        ELSE [st |-> "Err", vec |-> <<>>, calls |-> Len(self),
              err |-> (CHOOSE i \in bad : \A j \in bad : j <= i) - 1]

\* Vector::try_cast
try_cast(self) == try_cast_loop(self, 1, zero(Len(self)))

\* <f64 as From<i32>>::from: every value of T is a float
float_from(x) == Fin(2 * x)

RECURSIVE cast_loop(_, _, _)
cast_loop(self, i, components) ==
    IF i > Len(self) THEN components
    ELSE cast_loop(self, i + 1, [components EXCEPT ![i] = float_from(self[i])])

cast_first(self) == [i \in 1..Len(self) |-> float_from(self[1])]

\* Vector::cast, integer to float
cast(self) == cast_loop(self, 1, [i \in 1..Len(self) |-> Fin(0)])

(* ------------------------------------------------------------ actions *)

\* the names op takes for the scalar overloads and the compound assignments
ScalarName(func) == func \o "_scalar"
AssignName(func) == func \o "_assign"

Blank ==
    /\ op = "init"
    /\ arg = 0
    /\ status = "none"
    /\ res = <<>>
    /\ val = 0
    /\ fres = <<>>
    /\ calls = 0
    /\ err = -1
    /\ same = FALSE
    /\ ha = <<>>
    /\ hb = <<>>

\* two integer vectors of one dimension, and the build's overflow checks
Init ==
    /\ checks \in BOOLEAN
    /\ \E n \in 0..MaxN :
         /\ a \in Vec(n)
         /\ b \in Vec(n)
    /\ fa = <<>>
    /\ Blank

\* a float vector or an integer vector, the source of a cast
InitCast ==
    /\ checks \in BOOLEAN
    /\ \E n \in 0..MaxN :
         \/ fa \in FVec(n) /\ a = <<>>
         \/ a \in CastVec(n) /\ fa = <<>>
    /\ b = <<>>
    /\ Blank

\* a + b, a - b, a / b, a % b
BinOpVec ==
    /\ op = "init"
    /\ \E func \in Funcs :
         LET r == bin_op(func, a, b, checks)
         IN  /\ op' = func
             /\ status' = r.st
             /\ res' = r.vec
    /\ UNCHANGED <<a, b, fa, checks, arg, val, fres, calls, err>>
    /\ UNCHANGED <<same, ha, hb>>

\* a + s, a - s, a / s, a % s
BinOpScalar ==
    /\ op = "init"
    /\ \E func \in Funcs, s \in Scalars :
         LET r == bin_op_scalar(func, a, s, checks)
         IN  /\ op' = ScalarName(func)
             /\ arg' = s
             /\ status' = r.st
             /\ res' = r.vec
    /\ UNCHANGED <<a, b, fa, checks, val, fres, calls, err>>
    /\ UNCHANGED <<same, ha, hb>>

\* a * s
Mul ==
    /\ op = "init"
    /\ \E s \in Scalars :
         LET r == mul(a, s, checks)
         IN  /\ op' = "mul"
             /\ arg' = s
             /\ status' = r.st
             /\ res' = r.vec
    /\ UNCHANGED <<a, b, fa, checks, val, fres, calls, err>>
    /\ UNCHANGED <<same, ha, hb>>

\* a += b, a -= b, a /= b, a %= b
AssignOp ==
    /\ op = "init"
    /\ \E func \in Funcs :
         LET r == assign_op(func, a, b, checks)
         IN  /\ op' = AssignName(func)
             /\ status' = r.st
             /\ a' = r.vec
    /\ UNCHANGED <<b, fa, checks, arg, res, val, fres, calls, err>>
    /\ UNCHANGED <<same, ha, hb>>

\* -a
Neg ==
    /\ op = "init"
    /\ LET r == neg(a, checks)
       IN  /\ op' = "neg"
           /\ status' = r.st
           /\ res' = r.vec
    /\ UNCHANGED <<a, b, fa, checks, arg, val, fres, calls, err>>
    /\ UNCHANGED <<same, ha, hb>>

\* -(-a): the negation of the vector -a returned
NegResult ==
    /\ op = "neg"
    /\ status = "ok"
    /\ LET r == neg(res, checks)
       IN  /\ op' = "neg_neg"
           /\ status' = r.st
           /\ res' = r.vec
    /\ UNCHANGED <<a, b, fa, checks, arg, val, fres, calls, err>>
    /\ UNCHANGED <<same, ha, hb>>

\* a.hadamard_product(&b)
Hadamard ==
    /\ op = "init"
    /\ LET r == hadamard_product(a, b, checks)
       IN  /\ op' = "hadamard_product"
           /\ status' = r.st
           /\ res' = r.vec
    /\ UNCHANGED <<a, b, fa, checks, arg, val, fres, calls, err>>
    /\ UNCHANGED <<same, ha, hb>>

\* a.sum()
Sum ==
    /\ op = "init"
    /\ LET r == sum(a, checks)
       IN  /\ op' = "sum"
           /\ status' = IF r.ok THEN "ok" ELSE "panic"
           /\ val' = r.v
    /\ UNCHANGED <<a, b, fa, checks, arg, res, fres, calls, err>>
    /\ UNCHANGED <<same, ha, hb>>

\* a.dot(&b)
Dot ==
    /\ op = "init"
    /\ LET r == dot(a, b, checks)
       IN  /\ op' = "dot"
           /\ status' = IF r.ok THEN "ok" ELSE "panic"
           /\ val' = r.v
    /\ UNCHANGED <<a, b, fa, checks, arg, res, fres, calls, err>>
    /\ UNCHANGED <<same, ha, hb>>

\* a.manhattan_distance(&b)
Manhattan ==
    /\ op = "init"
    /\ LET r == manhattan_distance(a, b, checks)
       IN  /\ op' = "manhattan_distance"
           /\ status' = IF r.ok THEN "ok" ELSE "panic"
           /\ val' = r.v
    /\ UNCHANGED <<a, b, fa, checks, arg, res, fres, calls, err>>
    /\ UNCHANGED <<same, ha, hb>>

\* the components of a collected into a Vector<T, n>; arg is n
FromIter ==
    /\ op = "init"
    /\ \E n \in 0..MaxN :
         LET r == from_iter(a, n)
         IN  /\ op' = "from_iter"
             /\ arg' = n
             /\ status' = "ok"
             /\ res' = r.vec
             /\ calls' = r.calls
    /\ UNCHANGED <<a, b, fa, checks, val, fres, err>>
    /\ UNCHANGED <<same, ha, hb>>

\* fa.num_cast::<T>()
NumCast ==
    /\ op = "init"
    /\ LET r == num_cast("float_int", fa)
       IN  /\ op' = "num_cast"
           /\ status' = r.st
           /\ res' = r.vec
    /\ UNCHANGED <<a, b, fa, checks, arg, val, fres, calls, err>>
    /\ UNCHANGED <<same, ha, hb>>

\* a.num_cast::<K>()
NumCastInt ==
    /\ op = "init"
    /\ LET r == num_cast("int_narrow", a)
       IN  /\ op' = "num_cast_int"
           /\ status' = r.st
           /\ res' = r.vec
    /\ UNCHANGED <<a, b, fa, checks, arg, val, fres, calls, err>>
    /\ UNCHANGED <<same, ha, hb>>

\* a.try_cast::<K>()
TryCast ==
    /\ op = "init"
    /\ LET r == try_cast(a)
       IN  /\ op' = "try_cast"
           /\ status' = r.st
           /\ res' = r.vec
           /\ calls' = r.calls
           /\ err' = r.err
    /\ UNCHANGED <<a, b, fa, checks, arg, val, fres>>
    /\ UNCHANGED <<same, ha, hb>>

\* a.cast::<float>()
Cast ==
    /\ op = "init"
    /\ op' = "cast"
    /\ status' = "ok"
    /\ fres' = cast(a)
    /\ UNCHANGED <<a, b, fa, checks, arg, res, val, calls, err>>
    /\ UNCHANGED <<same, ha, hb>>

\* fa.num_cast::<T>().unwrap().cast::<float>()
CastResult ==
    /\ op = "num_cast"
    /\ status = "ok"
    /\ op' = "num_cast_cast"
    /\ fres' = cast(res)
    /\ UNCHANGED <<a, b, fa, checks, arg, status, res, val, calls, err>>
    /\ UNCHANGED <<same, ha, hb>>

\* a == b
Eq ==
    /\ op = "init"
    /\ op' = "eq"
    /\ status' = "ok"
    /\ same' = eq(a, b)
    /\ UNCHANGED <<a, b, fa, checks, arg, res, val, fres, calls, err, ha, hb>>

\* a.hash(&mut ha) and b.hash(&mut hb), two fresh hashers
Hash ==
    /\ op = "init"
    /\ op' = "hash"
    /\ status' = "ok"
    /\ ha' = hash(a, ha)
    /\ hb' = hash(b, hb)
    /\ UNCHANGED <<a, b, fa, checks, arg, res, val, fres, calls, err, same>>

Next ==
    \/ BinOpVec
    \/ BinOpScalar
    \/ Mul
    \/ AssignOp
    \/ Neg
    \/ NegResult
    \/ Hadamard
    \/ Sum
    \/ Dot
    \/ Manhattan
    \/ FromIter
    \/ Eq
    \/ Hash

NextCast ==
    \/ NumCast
    \/ NumCastInt
    \/ TryCast
    \/ Cast
    \/ CastResult

Spec == Init /\ [][Next]_vars

SpecCast == InitCast /\ [][NextCast]_vars

(* ------------------------------------------------------------- claims *)

Min(S) == CHOOSE x \in S : \A y \in S : x <= y

\* C1: every binary operator, vector or scalar operand, and the scaling
\* return a vector of N components whose component i is the element type's
\* operator applied to component i (and to component i of the other vector,
\* or to the scalar); the operation panics exactly when one of these does.
C1_Elementwise ==
    /\ \A func \in Funcs :
         op = func =>
           /\ (status = "panic") = (\E i \in 1..Len(a) : ~t_op(func, a[i], b[i], checks).ok)
           /\ status = "ok" =>
                /\ Len(res) = Len(a)
                /\ \A i \in 1..Len(a) : res[i] = t_op(func, a[i], b[i], checks).v
    /\ \A func \in Funcs :
         op = ScalarName(func) =>
           /\ (status = "panic") = (\E i \in 1..Len(a) : ~t_op(func, a[i], arg, checks).ok)
           /\ status = "ok" =>
                /\ Len(res) = Len(a)
                /\ \A i \in 1..Len(a) : res[i] = t_op(func, a[i], arg, checks).v
    /\ op = "mul" =>
           /\ (status = "panic") = (\E i \in 1..Len(a) : ~t_mul(a[i], arg, checks).ok)
           /\ status = "ok" =>
                /\ Len(res) = Len(a)
                /\ \A i \in 1..Len(a) : res[i] = t_mul(a[i], arg, checks).v

C1_Witness ==
    /\ op = "sub"
    /\ status = "ok"
    /\ Len(a) = MaxN
    /\ \E i \in 1..Len(a) : \E j \in 1..Len(a) : res[i] # res[j]

\* C2: from_iter builds a vector of exactly N (arg) components, the first
\* min(L, N) the items of the sequence in order and the others zero, and
\* pulls no item beyond the N-th.
C2_FromIter ==
    op = "from_iter" =>
      /\ status = "ok"
      /\ Len(res) = arg
      /\ \A i \in 1..arg : res[i] = (IF i <= Len(a) THEN a[i] ELSE 0)
      /\ calls = (IF Len(a) < arg THEN Len(a) ELSE arg)

C2_Witness ==
    /\ op = "from_iter"
    /\ arg >= 1
    /\ Len(a) > arg
    /\ a[arg + 1] # 0
    /\ res[arg] # 0

ZeroDivisorOps == {"div", "rem"}

\* C3 as stated: a division or remainder with a zero divisor component, or a
\* zero scalar divisor, always panics.
C3_Original ==
    \A func \in ZeroDivisorOps :
      /\ (op \in {func, AssignName(func)} /\ \E i \in 1..Len(b) : b[i] = 0)
            => status = "panic"
      /\ (op = ScalarName(func) /\ arg = 0) => status = "panic"

\* C3 amended: a division or remainder panics when a divisor component is
\* zero, and when the scalar divisor is zero and the vector has at least one
\* component; a zero scalar divisor of a vector of no components divides
\* nothing and returns that vector.
C3_ZeroDivisorPanics ==
    \A func \in ZeroDivisorOps :
      /\ (op \in {func, AssignName(func)} /\ \E i \in 1..Len(b) : b[i] = 0)
            => status = "panic"
      /\ (op = ScalarName(func) /\ arg = 0 /\ Len(a) >= 1) => status = "panic"
      /\ (op = ScalarName(func) /\ arg = 0 /\ Len(a) = 0)
            => (status = "ok" /\ res = <<>>)

C3_Witness ==
    /\ op = "rem_assign"
    /\ status = "panic"
    /\ Len(b) = MaxN
    /\ b[1] # 0
    /\ b[Len(b)] = 0

\* the float f has an integer value within T's range
IntegerValued(f) ==
    \/ f.k = "nzero"
    \/ f.k = "fin" /\ f.h % 2 = 0 /\ f.h >= 2 * TMin /\ f.h <= 2 * TMax

\* r is the float f with its fractional part dropped
TruncatedTo(f, r) ==
    \/ f.k = "nzero" /\ r = 0
    \/ /\ f.k = "fin"
       /\ Abs(f.h) - (2 * Abs(r)) \in {0, 1}
       /\ (r > 0 => f.h > 0)
       /\ (r < 0 => f.h < 0)

\* C4 as stated: num_cast returns None when a component is not representable
\* in the target type, and a vector of the components' exact values otherwise.
C4_Original ==
    op = "num_cast" =>
      /\ (\E i \in 1..Len(fa) : ~IntegerValued(fa[i])) => status = "None"
      /\ status = "ok" =>
           /\ Len(res) = Len(fa)
           /\ \A i \in 1..Len(fa) : f_eq(Fin(2 * res[i]), fa[i])

\* C4 amended: num_cast returns None exactly when the NumCast conversion of
\* a component fails: a float that is NaN, infinite or, with its fractional
\* part dropped, outside the target's range; an integer outside the target's
\* range.  Otherwise it returns a vector of the same N whose component i is
\* the conversion of component i, within the target's range and never
\* wrapped: an integer unchanged, a float truncated toward zero.
C4_NumCast ==
    /\ op = "num_cast" =>
         /\ (status = "None") =
              (\E i \in 1..Len(fa) :
                  \/ fa[i].k \in {"nan", "pinf", "ninf"}
                  \/ fa[i].k = "fin" /\ fa[i].h <= 2 * (TMin - 1)
                  \/ fa[i].k = "fin" /\ fa[i].h >= 2 * (TMax + 1))
         /\ status \in {"ok", "None"}
         /\ status = "ok" =>
              /\ Len(res) = Len(fa)
              /\ \A i \in 1..Len(fa) :
                   /\ res[i] >= TMin
                   /\ res[i] <= TMax
                   /\ TruncatedTo(fa[i], res[i])
    /\ op = "num_cast_int" =>
         /\ (status = "None") = (\E i \in 1..Len(a) : a[i] < KMin \/ a[i] > KMax)
         /\ status \in {"ok", "None"}
         /\ status = "ok" => (Len(res) = Len(a) /\ \A i \in 1..Len(a) : res[i] = a[i])

C4_Witness ==
    /\ op = "num_cast"
    /\ status = "ok"
    /\ Len(fa) = MaxN
    /\ fa[1] = Fin((2 * TMax) + 1)
    /\ res[1] = TMax

\* C5: try_cast converts in index order; when a component does not fit it
\* returns the error of the lowest such index, having converted no later
\* component; when all fit it returns the vector of the converted components.
C5_TryCast ==
    op = "try_cast" =>
      LET bad == {i \in 1..Len(a) : a[i] < KMin \/ a[i] > KMax}
      IN  /\ bad # {} =>
                /\ status = "Err"
                /\ err = Min(bad) - 1
                /\ calls = Min(bad)
          /\ bad = {} =>
                /\ status = "ok"
                /\ Len(res) = Len(a)
                /\ \A i \in 1..Len(a) : res[i] = a[i]
                /\ calls = Len(a)

C5_Witness ==
    /\ op = "try_cast"
    /\ status = "Err"
    /\ Len(a) = MaxN
    /\ err = 0
    /\ calls = 1
    /\ a[1] > KMax

\* C6: a float vector of integer values within T's range casts to T with
\* num_cast, and cast of the result is a float vector equal to the original.
C6_RoundTrip ==
    (\A i \in 1..Len(fa) : IntegerValued(fa[i])) =>
      /\ op = "num_cast" => status = "ok"
      /\ op = "num_cast_cast" =>
           /\ Len(fres) = Len(fa)
           /\ eq_float(fres, fa)
           /\ eq_float(fa, fres)

C6_Witness ==
    /\ op = "num_cast_cast"
    /\ Len(fa) = MaxN
    /\ \A i \in 1..Len(fa) : IntegerValued(fa[i])
    /\ fa[1] = Fin(2 * TMin)
    /\ fa[Len(fa)] = Fin(4)

\* C7: component i of -a is zero minus component i of a, and -(-a) equals a.
C7_Negation ==
    /\ op = "neg" =>
         /\ (status = "panic") = (checks /\ \E i \in 1..Len(a) : a[i] = TMin)
         /\ status = "ok" =>
              /\ Len(res) = Len(a)
              /\ \A i \in 1..Len(a) :
                   /\ res[i] = t_sub(0, a[i], checks).v
                   /\ a[i] # TMin => res[i] = 0 - a[i]
    /\ op = "neg_neg" =>
         /\ status = "ok"
         /\ Len(res) = Len(a)
         /\ eq(res, a)

C7_Witness ==
    /\ op = "neg_neg"
    /\ status = "ok"
    /\ Len(a) = MaxN
    /\ a[1] = 2
    /\ a[Len(a)] = -1

\* C8: dot(a, b) is the sum of the components of hadamard_product(a, b),
\* whose component i is a[i] * b[i]; one panics exactly when the other
\* does; (1,2,3) and (4,5,6) give 32 and (4,10,18).
C8_DotHadamard ==
    /\ op = "dot" =>
         LET h == hadamard_product(a, b, checks)
         IN  /\ (status = "ok") = (h.st = "ok" /\ sum(h.vec, checks).ok)
             /\ status = "ok" => val = sum(h.vec, checks).v
    /\ op = "hadamard_product" =>
         /\ (status = "panic") = (\E i \in 1..Len(a) : ~t_mul(a[i], b[i], checks).ok)
         /\ status = "ok" =>
              /\ Len(res) = Len(a)
              /\ \A i \in 1..Len(a) : res[i] = t_mul(a[i], b[i], checks).v
    /\ op \in {"dot", "hadamard_product"} =>
         /\ dot(<<1, 2, 3>>, <<4, 5, 6>>, checks) = Done(32)
         /\ hadamard_product(<<1, 2, 3>>, <<4, 5, 6>>, checks) = Ok(<<4, 10, 18>>)

C8_Witness ==
    /\ op = "dot"
    /\ status = "ok"
    /\ Len(a) = MaxN
    /\ \A i \in 1..Len(a) : a[i] * b[i] # 0
    /\ val # 0

RECURSIVE AbsDiffSum(_, _, _)
AbsDiffSum(x, y, n) ==
    IF n = 0 THEN 0 ELSE AbsDiffSum(x, y, n - 1) + Abs(x[n] - y[n])

\* C9: manhattan_distance(a, b) is the sum of |a[i] - b[i]| (0 when N = 0)
\* whenever that sum is a value of T, and panics under overflow checks when
\* it is not; it is symmetric in a and b and zero when a equals b.
C9_Manhattan ==
    op = "manhattan_distance" =>
      LET total == AbsDiffSum(a, b, Len(a))
          back == manhattan_distance(b, a, checks)
      IN  /\ total <= TMax => (status = "ok" /\ val = total)
          /\ (total > TMax /\ checks) => status = "panic"
          /\ (total > TMax /\ ~checks) => status = "ok"
          /\ (status = "ok") = back.ok
          /\ status = "ok" => val = back.v
          /\ eq(a, b) => (status = "ok" /\ val = 0)
          /\ Len(a) = 0 => (status = "ok" /\ val = 0)

C9_Witness ==
    /\ op = "manhattan_distance"
    /\ status = "ok"
    /\ Len(a) = MaxN
    /\ a[1] < b[1]
    /\ a[Len(a)] > b[Len(a)]
    /\ val = AbsDiffSum(a, b, Len(a))

\* C10: a compound assignment that completes leaves in the receiver the
\* vector the binary operator returns on the receiver's prior value and
\* the same right-hand side, and leaves the right-hand side as it was; it
\* panics exactly when the binary operator does.
C10_AssignIsBinOp ==
    [][\A func \in Funcs :
         op' = AssignName(func) =>
           /\ (status' = "ok") = (bin_op(func, a, b, checks).st = "ok")
           /\ status' = "ok" =>
                /\ Len(a') = Len(a)
                /\ a' = bin_op(func, a, b, checks).vec
                /\ b' = b]_vars

C10_Witness ==
    /\ op = "div_assign"
    /\ status = "ok"
    /\ Len(a) = MaxN
    /\ a[1] # 0
    /\ a[1] # b[1]

\* C11: a == b holds exactly when the N components are pairwise equal, and
\* equal vectors hash equally: each hasher is fed the N components in index
\* order (after the length), so a == b leaves the two hashers in one state.
C11_EqHash ==
    /\ op = "eq" =>
         same = (\A i \in 1..Len(a) : a[i] = b[i])
    /\ op = "hash" =>
         /\ Len(ha) = Len(a) + 1
         /\ \A i \in 1..Len(a) : ha[i + 1] = a[i]
         /\ Len(hb) = Len(b) + 1
         /\ \A i \in 1..Len(b) : hb[i + 1] = b[i]
         /\ eq(a, b) => ha = hb

C11_Witness ==
    /\ op = "hash"
    /\ Len(a) = MaxN
    /\ eq(a, b)
    /\ a[1] # a[Len(a)]
    /\ ha = hb

====
